---- MODULE Spec2Model ----
(***************************************************************************)
(* Model of the go-gerrit client core (gerrit.go): NewClient's credential  *)
(* bootstrap, the request pipeline NewRequest / addAuthentication / Do,    *)
(* buildURLForRequest, RemoveMagicPrefixLine and CheckResponse.            *)
(*                                                                         *)
(* Strings and byte slices are sequences of tokens.  A token is one byte,  *)
(* or a unit the code never looks inside: the scheme "http://", a          *)
(* user-info component "u:p@", the host "h", a percent escape "%2F".       *)
(***************************************************************************)
EXTENDS Integers, Sequences, FiniteSets, TLC

----------------------------------------------------------------------------
(* Bounds of the model. *)

\* Longest body handed to RemoveMagicPrefixLine, counted in chunks.
MaxChunks == 3
\* Most path segments of a base endpoint.
MaxBasePath == 1
\* Longest relative path handed to buildURLForRequest on its own, in tokens.
MaxRelPath == 4
\* How far below and above its success range CheckResponse is given statuses.
StatusMargin == 10

----------------------------------------------------------------------------
(* Program constants. *)

StatusOK == 200
StatusUnauthorized == 401
\* CheckResponse's success range.
StatusLow == 200
StatusHigh == 299

\* The error values of the package, by name.
ErrNil == "nil"
ErrNoInstanceGiven == "ErrNoInstanceGiven"
ErrUserProvidedWithoutPassword == "ErrUserProvidedWithoutPassword"
ErrAuthenticationFailed == "ErrAuthenticationFailed"
ErrWWWAuthenticateHeaderMissing == "ErrWWWAuthenticateHeaderMissing"
ErrWWWAuthenticateHeaderNotDigest == "ErrWWWAuthenticateHeaderNotDigest"
\* Errors made by the libraries the code calls.
ErrURLParse == "url.Parse error"
ErrTransport == "transport error"
ErrStatus == "API call failed"
ErrRead == "body read error"
ErrDecode == "json.Unmarshal error"

----------------------------------------------------------------------------
(* Strings. *)

HasPrefix(s, p) == Len(s) >= Len(p) /\ SubSeq(s, 1, Len(p)) = p
HasSuffix(s, p) == Len(s) >= Len(p) /\ SubSeq(s, Len(s) - Len(p) + 1, Len(s)) = p
Drop(s, n) == SubSeq(s, n + 1, Len(s))

----------------------------------------------------------------------------
(* net/url, as far as the client uses it. *)

SchemeTok == "http://"
HostTok == "h"
NoUser == [present |-> FALSE, name |-> "", haspassword |-> FALSE, password |-> ""]
\* The user-info components of the connection strings: u@, u:@ and u:p@.
UserToks == {"u@", "u:@", "u:p@"}
UserOf(tok) ==
    CASE tok = "u@" -> [present |-> TRUE, name |-> "u", haspassword |-> FALSE, password |-> ""]
      [] tok = "u:@" -> [present |-> TRUE, name |-> "u", haspassword |-> TRUE, password |-> ""]
      [] tok = "u:p@" -> [present |-> TRUE, name |-> "u", haspassword |-> TRUE, password |-> "p"]
UserTok(user) ==
    IF ~user.haspassword THEN "u@" ELSE IF user.password = "" THEN "u:@" ELSE "u:p@"

\* A percent escape that is no escape: url.Parse rejects it.
BadEscape == "%zz"
unescapeTok(t) == IF t = "%2F" THEN "/" ELSE IF t = "%20" THEN " " ELSE t
unescape(s) == [i \in 1..Len(s) |-> unescapeTok(s[i])]
\* escape(s, encodePath): a space is escaped, a separator is not.
escapeTok(t) == IF t = " " THEN "%20" ELSE t
escape(s) == [i \in 1..Len(s) |-> escapeTok(s[i])]
\* validEncoded(s, encodePath): no byte that should have been escaped.
validEncoded(s) == \A i \in 1..Len(s) : s[i] # " "

NoURL ==
    [ok |-> FALSE, Scheme |-> "", User |-> NoUser, Host |-> "", Path |-> <<>>, RawPath |-> <<>>]
\* URL.setPath: RawPath is kept only when it differs from the default encoding.
setPath(u, p) ==
    [u EXCEPT !.Path = unescape(p),
              !.RawPath = IF escape(unescape(p)) = p THEN <<>> ELSE p]
\* url.Parse of a string that holds no query and no fragment.
urlParse(s) ==
    LET abs == Len(s) >= 1 /\ s[1] = SchemeTok
        hasUser == abs /\ Len(s) >= 2 /\ s[2] \in UserToks
        hostAt == IF hasUser THEN 3 ELSE 2
        hasHost == abs /\ Len(s) >= hostAt /\ s[hostAt] = HostTok
        rest == IF ~abs THEN s ELSE IF hasHost THEN Drop(s, hostAt) ELSE Drop(s, hostAt - 1)
    IN  IF \E i \in 1..Len(rest) : rest[i] = BadEscape
        THEN NoURL
        ELSE setPath([ok |-> TRUE,
                      Scheme |-> IF abs THEN "http" ELSE "",
                      User |-> IF hasUser THEN UserOf(s[2]) ELSE NoUser,
                      Host |-> IF hasHost THEN HostTok ELSE "",
                      Path |-> <<>>, RawPath |-> <<>>], rest)
\* URL.EscapedPath
EscapedPath(u) ==
    IF u.RawPath # <<>> /\ validEncoded(u.RawPath) /\ unescape(u.RawPath) = u.Path
    THEN u.RawPath
    ELSE escape(u.Path)
\* URL.String
urlString(u) ==
    LET path == EscapedPath(u)
    IN  (IF u.Scheme # "" THEN <<SchemeTok>> ELSE <<>>)
        \o (IF u.User.present THEN <<UserTok(u.User)>> ELSE <<>>)
        \o (IF u.Host # "" THEN <<u.Host>> ELSE <<>>)
        \o (IF path # <<>> /\ path[1] # "/" /\ u.Host # "" THEN <<"/">> ELSE <<>>)
        \o path
\* URL.RequestURI of a URL that holds no query: the escaped path, "/" when empty.
RequestURI(u) == IF EscapedPath(u) = <<>> THEN <<"/">> ELSE EscapedPath(u)

----------------------------------------------------------------------------
(* AuthenticationService: the scheme in force and its credential. *)

Schemes == {"None", "Basic", "Cookie", "Digest"}
NoAuth == [authType |-> "None", name |-> "", secret |-> ""]
SetBasicAuth(name, secret) == [authType |-> "Basic", name |-> name, secret |-> secret]
SetCookieAuth(name, secret) == [authType |-> "Cookie", name |-> name, secret |-> secret]
SetDigestAuth(name, secret) == [authType |-> "Digest", name |-> name, secret |-> secret]
ResetAuth == NoAuth
HasBasicAuth(au) == au.authType = "Basic"
HasCookieAuth(au) == au.authType = "Cookie"
HasDigestAuth(au) == au.authType = "Digest"
HasAuth(au) == au.authType # "None"

NoHeader == [kind |-> "", name |-> "", secret |-> ""]
NoCookie == [present |-> FALSE, name |-> "", value |-> ""]
\* The answers of the transport: an error, or a response with its status,
\* the scheme its WWW-Authenticate header names ("" when it has none),
\* whether reading its body fails and whether its body is well-formed JSON.
Statuses == {200, 201, 401, 500}
Responses ==
    [err : BOOLEAN, status : Statuses, wwwAuth : {"", "Basic", "Digest"},
     readErr : BOOLEAN, bodyOk : BOOLEAN]
\* digestAuthHeader: the Authorization value for a 401 challenge, or an error.
digestAuthHeader(au, response) ==
    IF response.wwwAuth = ""
    THEN [err |-> ErrWWWAuthenticateHeaderMissing, value |-> NoHeader]
    ELSE IF response.wwwAuth # "Digest"
    THEN [err |-> ErrWWWAuthenticateHeaderNotDigest, value |-> NoHeader]
    ELSE [err |-> ErrNil,
          value |-> [kind |-> "Digest", name |-> au.name, secret |-> au.secret]]

----------------------------------------------------------------------------
(* The pure functions of gerrit.go. *)

\* Variant: a separator is added to the base whether it ends with one or not.
buildURLForRequest_AlwaysSeparator(base, au, urlStr) ==
    LET u == urlString(base) \o <<"/">>
        s1 == IF HasPrefix(urlStr, <<"/">>) THEN Drop(urlStr, 1) ELSE urlStr
        s2 == IF HasAuth(au) /\ ~HasPrefix(s1, <<"a", "/">>) THEN <<"a", "/">> \o s1 ELSE s1
        rel == urlParse(s2)
    IN  IF ~rel.ok
        THEN [ok |-> FALSE, u |-> <<>>]
        ELSE [ok |-> TRUE, u |-> u \o urlString(rel)]
\* Variant: the a/ prefix is added to a path that has it already.
buildURLForRequest_AlwaysPrefix(base, au, urlStr) ==
    LET u0 == urlString(base)
        u == IF ~HasSuffix(u0, <<"/">>) THEN u0 \o <<"/">> ELSE u0
        s1 == IF HasPrefix(urlStr, <<"/">>) THEN Drop(urlStr, 1) ELSE urlStr
        s2 == IF HasAuth(au) THEN <<"a", "/">> \o s1 ELSE s1
        rel == urlParse(s2)
    IN  IF ~rel.ok
        THEN [ok |-> FALSE, u |-> <<>>]
        ELSE [ok |-> TRUE, u |-> u \o urlString(rel)]
\* Client.buildURLForRequest.  The relative paths of the model hold no
\* query, no fragment and no leading "//", so url.Parse reads them as a path.
buildURLForRequest(base, au, urlStr) ==
    LET u0 == urlString(base)
        u == IF ~HasSuffix(u0, <<"/">>) THEN u0 \o <<"/">> ELSE u0
        s1 == IF HasPrefix(urlStr, <<"/">>) THEN Drop(urlStr, 1) ELSE urlStr
        s2 == IF HasAuth(au) /\ ~HasPrefix(s1, <<"a", "/">>) THEN <<"a", "/">> \o s1 ELSE s1
        rel == urlParse(s2)
    IN  IF ~rel.ok
        THEN [ok |-> FALSE, u |-> <<>>]
        ELSE [ok |-> TRUE, u |-> u \o urlString(rel)]

\* bytes.IndexByte: the first index of c in s, from 0, or -1.
RECURSIVE IndexByteFrom(_, _, _)
IndexByteFrom(s, c, i) ==
    IF i > Len(s) THEN -1 ELSE IF s[i] = c THEN i - 1 ELSE IndexByteFrom(s, c, i + 1)
IndexByte(s, c) == IndexByteFrom(s, c, 1)

\* bytes.LastIndexByte
RECURSIVE LastIndexByteFrom(_, _, _)
LastIndexByteFrom(s, c, i) ==
    IF i < 1 THEN -1 ELSE IF s[i] = c THEN i - 1 ELSE LastIndexByteFrom(s, c, i - 1)

MagicPrefix == <<")", "]", "}", "'", "\n">>
\* Variant: the prefix is tested without its newline.
RemoveMagicPrefixLine_PrefixWithoutNewline(body) ==
    IF HasPrefix(body, SubSeq(MagicPrefix, 1, 4))
    THEN LET index == IndexByte(body, "\n")
         IN  IF index > -1 THEN Drop(body, index + 1) ELSE body
    ELSE body
\* Variant: the cut is made at the last newline of the body.
RemoveMagicPrefixLine_LastNewline(body) ==
    IF HasPrefix(body, MagicPrefix)
    THEN LET index == LastIndexByteFrom(body, "\n", Len(body))
         IN  IF index > -1 THEN Drop(body, index + 1) ELSE body
    ELSE body
RemoveMagicPrefixLine(body) ==
    IF HasPrefix(body, MagicPrefix)
    THEN LET index == IndexByte(body, "\n")
         IN  IF index > -1 THEN Drop(body, index + 1) ELSE body
    ELSE body

\* Variant: the upper end of the range is excluded.
CheckResponse_ExclusiveUpper(status) ==
    IF StatusLow <= status /\ status < StatusHigh THEN ErrNil ELSE ErrStatus
\* CheckResponse: nil for a status in the 200 range, an error otherwise.
CheckResponse(status) ==
    IF StatusLow <= status /\ status <= StatusHigh THEN ErrNil ELSE ErrStatus
\* The text of CheckResponse's error for response r:
\* "API call to <r.Request.URL.String()> failed: <r.Status>".
CheckResponseText(r) ==
    <<"API call to ">> \o urlString(r.URL) \o <<" failed: ">> \o <<r.Status>>

\* Client.Do on the transport's answer r, for a destination v that is absent
\* ("none"), an io.Writer ("writer") or a value to decode into ("typed").
\* Besides the response and the error it returns, the result tells whether
\* the body was read and what became of v.
NoResp == [present |-> FALSE, status |-> 0]
\* Variant: the response is dropped when its status is classified as an error.
Do_NoResponseOnStatusError(r, dest) ==
    LET response == [present |-> TRUE, status |-> r.status]
    IN  IF r.err
        THEN [resp |-> NoResp, err |-> ErrTransport, read |-> FALSE, v |-> "untouched"]
        ELSE IF CheckResponse(r.status) # ErrNil
        THEN [resp |-> NoResp, err |-> CheckResponse(r.status),
              read |-> FALSE, v |-> "untouched"]
        ELSE IF dest = "none"
        THEN [resp |-> response, err |-> ErrNil, read |-> FALSE, v |-> "untouched"]
        ELSE IF dest = "writer"
        THEN [resp |-> response, err |-> ErrNil, read |-> TRUE, v |-> "copied"]
        ELSE IF r.readErr
        THEN [resp |-> response, err |-> ErrRead, read |-> TRUE, v |-> "untouched"]
        ELSE IF ~r.bodyOk
        THEN [resp |-> response, err |-> ErrDecode, read |-> TRUE, v |-> "undecoded"]
        ELSE [resp |-> response, err |-> ErrNil, read |-> TRUE, v |-> "decoded"]
Do(r, dest) ==
    LET response == [present |-> TRUE, status |-> r.status]
    IN  IF r.err
        THEN [resp |-> NoResp, err |-> ErrTransport, read |-> FALSE, v |-> "untouched"]
        ELSE IF CheckResponse(r.status) # ErrNil
        THEN [resp |-> response, err |-> CheckResponse(r.status),
              read |-> FALSE, v |-> "untouched"]
        ELSE IF dest = "none"
        THEN [resp |-> response, err |-> ErrNil, read |-> FALSE, v |-> "untouched"]
        ELSE IF dest = "writer"
        THEN [resp |-> response, err |-> ErrNil, read |-> TRUE, v |-> "copied"]
        ELSE IF r.readErr
        THEN [resp |-> response, err |-> ErrRead, read |-> TRUE, v |-> "untouched"]
        ELSE IF ~r.bodyOk
        THEN [resp |-> response, err |-> ErrDecode, read |-> TRUE, v |-> "undecoded"]
        ELSE [resp |-> response, err |-> ErrNil, read |-> TRUE, v |-> "decoded"]

\* checkAuth on what GetAccount("self") returned.  Reading the status of a
\* response that is nil is a nil pointer dereference: the goroutine panics.
checkAuth(response, err) ==
    IF err = ErrWWWAuthenticateHeaderMissing \/ err = ErrWWWAuthenticateHeaderNotDigest
    THEN [panic |-> FALSE, success |-> FALSE, err |-> ErrNil]
    ELSE IF ~response.present
    THEN [panic |-> TRUE, success |-> FALSE, err |-> err]
    ELSE [panic |-> FALSE,
          success |-> response.status = StatusOK,
          err |-> IF err # ErrNil /\ response.status = StatusUnauthorized
                  THEN ErrNil ELSE err]

----------------------------------------------------------------------------
(* The state. *)

VARIABLES
    endpoint,      \* NewClient's argument, the connection string
    ncPc,          \* where NewClient stands: "start", the scheme it probes, "returned", "panicked"
    retClient,     \* NewClient returned a client (not nil)
    retErr,        \* the error NewClient returned
    baseURL,       \* Client.baseURL
    userpass,      \* NewClient's locals username and password
    auth,          \* Client.Authentication: authType, name, secret
    probeLog,      \* history: one entry per checkAuth of NewClient
    netCalls,      \* history: transport calls made on behalf of NewClient
    callPc,        \* where the call in progress stands
    call,          \* its arguments: caller, method, urlStr, hasBody, dest
    req,           \* the request NewRequest is building
    wire,          \* history: the requests of this call handed to the transport
    resp,          \* the response the call returns
    callErr,       \* the error the call returns
    prefixScheme,  \* history: authType as buildURLForRequest read it for this request
    credScheme,    \* history: the branch addAuthentication took for this request
    raced,         \* history: the auth state was set while NewRequest was reading it
    probeSeen,     \* history: what addAuthentication read of the Digest probe's answer
    delivered,     \* history: what Do read of the answer and did to the destination v
    body,          \* a response body
    stripped,      \* RemoveMagicPrefixLine's results on it, one per application
    stripPc,
    relPath,       \* a relative path handed to buildURLForRequest on its own
    built,         \* buildURLForRequest's result on it
    answer,        \* a response handed to CheckResponse on its own
    verdict        \* CheckResponse's result on it

bootVars == <<endpoint, ncPc, retClient, retErr, baseURL, userpass, probeLog>>
callVars == <<callPc, call, req, wire, resp, callErr, prefixScheme, credScheme, raced,
              probeSeen, delivered>>
stripVars == <<body, stripped, stripPc>>
pureVars == <<stripVars, relPath, built, answer, verdict>>
vars == <<bootVars, auth, netCalls, callVars, pureVars>>

S == SchemeTok
H == HostTok
\* The paths of the base endpoints: up to MaxBasePath segments, with and
\* without a trailing separator.
RECURSIVE Segments(_)
Segments(k) == IF k = 0 THEN <<>> ELSE <<"/", "g">> \o Segments(k - 1)
BasePaths == UNION { { Segments(k), Segments(k) \o <<"/">> } : k \in 0..MaxBasePath }
\* The connection strings NewClient is given: empty, malformed, and every
\* base path without user-info, with a name only, with a name and an empty
\* secret, and with a name and a secret.
Endpoints ==
    { <<>>, <<S, H, "/", BadEscape>> }
    \cup { <<S>> \o u \o <<H>> \o p :
              u \in { <<>>, <<"u@">>, <<"u:@">>, <<"u:p@">> }, p \in BasePaths }
\* The relative paths and credentials of the owner's calls.
RelPaths ==
    { <<"accounts", "/", "self">>,
      <<"/", "accounts", "/", "self">>,
      <<"a", "/", "accounts", "/", "self">>,
      <<"projects", "/", "p", "%2F", "q">>,
      <<"projects", "/", BadEscape>> }
\* The shapes of a call: its method, whether it has a body, its destination.
CallShapes ==
    { <<"GET", FALSE, "typed">>, <<"GET", FALSE, "writer">>,
      <<"PUT", TRUE, "typed">>, <<"DELETE", TRUE, "none">> }
Credentials == { <<"u", "p">>, <<"k", "v">> }

NotSeen == [status |-> 0, wwwAuth |-> ""]
\* Nothing was read and v is as the caller passed it.
NotDelivered == [read |-> FALSE, readErr |-> FALSE, malformed |-> FALSE, v |-> "untouched"]
NoCall == [caller |-> "", method |-> "", urlStr |-> <<>>, hasBody |-> FALSE, dest |-> "none"]
NoReq ==
    [built |-> FALSE, method |-> "", URL |-> NoURL, hasBody |-> FALSE,
     authorization |-> NoHeader, cookie |-> NoCookie, accept |-> ""]
\* Variant: the credentials are taken from the auth state when the request
\* is sent, not from the request as it was built.
OnWire_AuthAtSend(role, r) ==
    [role |-> role, method |-> r.method, url |-> urlString(r.URL), hasBody |-> r.hasBody,
     authorization |-> IF role = "real" /\ HasBasicAuth(auth)
                       THEN [kind |-> "Basic", name |-> auth.name, secret |-> auth.secret]
                       ELSE IF role = "real" /\ ~HasDigestAuth(auth) THEN NoHeader
                       ELSE r.authorization,
     cookie |-> IF role = "real" /\ HasCookieAuth(auth)
                THEN [present |-> TRUE, name |-> auth.name, value |-> auth.secret]
                ELSE IF role = "real" THEN NoCookie ELSE r.cookie,
     accept |-> r.accept]
\* What the transport is handed for request r.
OnWire(role, r) ==
    [role |-> role, method |-> r.method, url |-> urlString(r.URL), hasBody |-> r.hasBody,
     authorization |-> r.authorization, cookie |-> r.cookie, accept |-> r.accept]

CallIdle ==
    /\ callPc = "idle" /\ call = NoCall /\ req = NoReq /\ wire = <<>>
    /\ resp = NoResp /\ callErr = ErrNil
    /\ prefixScheme = "" /\ credScheme = "" /\ raced = FALSE /\ probeSeen = NotSeen
    /\ delivered = NotDelivered
StripIdle == body = <<>> /\ stripped = <<>> /\ stripPc = "off"
NotBuilt == [done |-> FALSE, ok |-> FALSE, u |-> <<>>]
BuildIdle == relPath = <<>> /\ built = NotBuilt
NoAnswer == [StatusCode |-> 0, Status |-> "", URL |-> NoURL]
NoVerdict == [done |-> FALSE, err |-> ErrNil, text |-> <<>>]
CheckIdle == answer = NoAnswer /\ verdict = NoVerdict

Init ==
    /\ endpoint \in Endpoints
    /\ ncPc = "start"
    /\ retClient = FALSE
    /\ retErr = ErrNil
    /\ baseURL = NoURL
    /\ userpass = <<"", "">>
    /\ auth = NoAuth
    /\ probeLog = <<>>
    /\ netCalls = 0
    /\ CallIdle
    /\ StripIdle
    /\ BuildIdle
    /\ CheckIdle

----------------------------------------------------------------------------
(* One call through the pipeline: NewRequest, then Do. *)

\* Entering NewRequest for call c.
Begin(c) ==
    /\ callPc' = "build"
    /\ call' = c
    /\ req' = NoReq
    /\ wire' = <<>>
    /\ resp' = NoResp
    /\ callErr' = ErrNil
    /\ prefixScheme' = ""
    /\ credScheme' = ""
    /\ raced' = FALSE
    /\ probeSeen' = NotSeen
    /\ delivered' = NotDelivered

\* The call returns response r and error e.
Return(r, e) ==
    /\ callPc' = "done"
    /\ resp' = r
    /\ callErr' = e

\* NewRequest up to http.NewRequest: the URL is built from the auth state
\* as it is now.
NewRequestBuild ==
    /\ callPc = "build"
    /\ LET b == buildURLForRequest(baseURL, auth, call.urlStr)
       IN  IF ~b.ok \/ ~urlParse(b.u).ok
           THEN /\ Return(NoResp, ErrURLParse)
                /\ UNCHANGED <<req, prefixScheme>>
           ELSE /\ req' = [NoReq EXCEPT !.built = TRUE, !.method = call.method,
                                        !.URL = urlParse(b.u), !.hasBody = call.hasBody]
                /\ prefixScheme' = auth.authType
                /\ callPc' = "basic"
                /\ UNCHANGED <<resp, callErr>>
    /\ UNCHANGED <<bootVars, auth, netCalls, call, wire, credScheme, raced, probeSeen,
                   delivered, pureVars>>

\* addAuthentication returned nil: NewRequest sets its two headers and returns.
Built(r) == [r EXCEPT !.accept = "application/json"]

\* addAuthentication, the Basic branch.
AddBasic ==
    /\ callPc = "basic"
    /\ IF HasBasicAuth(auth)
       THEN /\ req' = Built([req EXCEPT !.authorization =
                        [kind |-> "Basic", name |-> auth.name, secret |-> auth.secret]])
            /\ credScheme' = "Basic"
            /\ callPc' = "send"
       ELSE /\ callPc' = "cookie"
            /\ UNCHANGED <<req, credScheme>>
    /\ UNCHANGED <<bootVars, auth, netCalls, call, wire, resp, callErr, prefixScheme,
                   raced, probeSeen, delivered, pureVars>>

\* Variant: the Cookie branch sets the basic-auth header as well.
AddCookie_AlsoBasic ==
    /\ callPc = "cookie"
    /\ IF HasCookieAuth(auth)
       THEN /\ req' = Built([req EXCEPT
                        !.cookie = [present |-> TRUE, name |-> auth.name,
                                    value |-> auth.secret],
                        !.authorization = [kind |-> "Basic", name |-> auth.name,
                                           secret |-> auth.secret]])
            /\ credScheme' = "Cookie"
            /\ callPc' = "send"
       ELSE /\ callPc' = "digest"
            /\ UNCHANGED <<req, credScheme>>
    /\ UNCHANGED <<bootVars, auth, netCalls, call, wire, resp, callErr, prefixScheme,
                   raced, probeSeen, delivered, pureVars>>
\* addAuthentication, the Cookie branch.
AddCookie ==
    /\ callPc = "cookie"
    /\ IF HasCookieAuth(auth)
       THEN /\ req' = Built([req EXCEPT !.cookie =
                        [present |-> TRUE, name |-> auth.name, value |-> auth.secret]])
            /\ credScheme' = "Cookie"
            /\ callPc' = "send"
       ELSE /\ callPc' = "digest"
            /\ UNCHANGED <<req, credScheme>>
    /\ UNCHANGED <<bootVars, auth, netCalls, call, wire, resp, callErr, prefixScheme,
                   raced, probeSeen, delivered, pureVars>>

\* addAuthentication, the test of the Digest branch.
AddDigest ==
    /\ callPc = "digest"
    /\ IF HasDigestAuth(auth)
       THEN /\ credScheme' = "Digest"
            /\ callPc' = "probe"
            /\ req' = req
       ELSE /\ credScheme' = "None"
            /\ callPc' = "send"
            /\ req' = Built(req)
    /\ UNCHANGED <<bootVars, auth, netCalls, call, wire, resp, callErr, prefixScheme,
                   raced, probeSeen, delivered, pureVars>>

\* The request addAuthentication sends ahead of a Digest request.
digestRequest(r, uri) ==
    [NoReq EXCEPT !.built = TRUE, !.method = r.method, !.URL = urlParse(uri),
                  !.accept = "*/*"]

\* addAuthentication, the Digest branch up to c.client.Do(digestRequest).
DigestProbeSend ==
    /\ callPc = "probe"
    /\ LET b == buildURLForRequest(baseURL, auth, RequestURI(req.URL))
       IN  IF ~b.ok
           THEN /\ Return(NoResp, ErrURLParse)
                /\ UNCHANGED <<wire, netCalls>>
           ELSE /\ wire' = Append(wire, OnWire("probe", digestRequest(req, b.u)))
                /\ netCalls' = IF call.caller = "NewClient" THEN netCalls + 1 ELSE netCalls
                /\ callPc' = "challenge"
                /\ UNCHANGED <<resp, callErr>>
    /\ UNCHANGED <<bootVars, auth, call, req, prefixScheme, credScheme, raced, probeSeen,
                   delivered, pureVars>>

\* What addAuthentication reads of the answer r to the probe: its status
\* and, of a 401, its WWW-Authenticate header.
Seen(r) ==
    IF r.err THEN NotSeen
    ELSE IF r.status = StatusUnauthorized THEN [status |-> r.status, wwwAuth |-> r.wwwAuth]
    ELSE [status |-> r.status, wwwAuth |-> ""]

\* Variant: the challenge is answered whatever the status of the probe.
AfterProbe_AnyStatus(r, au, rq) ==
    IF r.err
    THEN [err |-> ErrTransport, req |-> rq]
    ELSE IF r.status = StatusUnauthorized \/ r.wwwAuth = "Digest"
    THEN LET h == digestAuthHeader(au, r)
         IN  IF h.err # ErrNil
             THEN [err |-> h.err, req |-> rq]
             ELSE [err |-> ErrNil, req |-> [rq EXCEPT !.authorization = h.value]]
    ELSE [err |-> ErrNil, req |-> rq]
\* Variant: an error of digestAuthHeader is dropped.
AfterProbe_DropsHeaderError(r, au, rq) ==
    IF r.err
    THEN [err |-> ErrTransport, req |-> rq]
    ELSE IF r.status = StatusUnauthorized /\ digestAuthHeader(au, r).err = ErrNil
    THEN [err |-> ErrNil, req |-> [rq EXCEPT !.authorization = digestAuthHeader(au, r).value]]
    ELSE [err |-> ErrNil, req |-> rq]

\* addAuthentication on the answer r to the probe.
AfterProbe(r, au, rq) ==
    IF r.err
    THEN [err |-> ErrTransport, req |-> rq]
    ELSE IF r.status = StatusUnauthorized
    THEN LET h == digestAuthHeader(au, r)
         IN  IF h.err # ErrNil
             THEN [err |-> h.err, req |-> rq]
             ELSE [err |-> ErrNil, req |-> [rq EXCEPT !.authorization = h.value]]
    ELSE [err |-> ErrNil, req |-> rq]

DigestChallenge ==
    /\ callPc = "challenge"
    /\ \E r \in Responses :
          LET a == AfterProbe(r, auth, req)
          IN  /\ probeSeen' = Seen(r)
              /\ IF a.err # ErrNil
                 THEN /\ Return(NoResp, a.err)
                      /\ req' = req
                 ELSE /\ req' = Built(a.req)
                      /\ callPc' = "send"
                      /\ UNCHANGED <<resp, callErr>>
    /\ UNCHANGED <<bootVars, auth, netCalls, call, wire, prefixScheme, credScheme, raced,
                   delivered, pureVars>>

\* What Do, with result d, read of the answer r: whether it read the body,
\* whether that failed, whether what it read was malformed JSON, and what
\* became of v.
Delivered(r, d) ==
    [read |-> d.read, readErr |-> d.read /\ r.readErr,
     malformed |-> d.read /\ ~r.readErr /\ ~r.bodyOk, v |-> d.v]

\* Variant: a request the transport failed on is sent a second time.
CallDo_Retry ==
    /\ callPc = "send"
    /\ \E r1 \in Responses, r2 \in Responses :
          IF r1.err
          THEN /\ wire' = wire \o <<OnWire("real", req), OnWire("real", req)>>
               /\ Return(Do(r2, call.dest).resp, Do(r2, call.dest).err)
               /\ delivered' = Delivered(r2, Do(r2, call.dest))
          ELSE /\ wire' = Append(wire, OnWire("real", req))
               /\ Return(Do(r1, call.dest).resp, Do(r1, call.dest).err)
               /\ delivered' = Delivered(r1, Do(r1, call.dest))
    /\ netCalls' = netCalls
    /\ UNCHANGED <<bootVars, auth, call, req, prefixScheme, credScheme, raced, probeSeen,
                   pureVars>>

\* Client.Do: the request goes to the transport once, and its answer is
\* classified and decoded.
CallDo ==
    /\ callPc = "send"
    /\ wire' = Append(wire, OnWire("real", req))
    /\ netCalls' = IF call.caller = "NewClient" THEN netCalls + 1 ELSE netCalls
    /\ \E r \in Responses :
          LET d == Do(r, call.dest)
          IN  Return(d.resp, d.err) /\ delivered' = Delivered(r, d)
    /\ UNCHANGED <<bootVars, auth, call, req, prefixScheme, credScheme, raced, probeSeen,
                   pureVars>>

----------------------------------------------------------------------------
(* NewClient. *)

\* Variant: a connection string without user-info is probed too, with an
\* empty name and an empty secret.
NewClientParse_ProbesWithoutUser(ep) ==
    LET fail(e) == [err |-> e, baseURL |-> NoURL, hasAuth |-> FALSE,
                    username |-> "", password |-> ""]
        parsed == urlParse(ep)
        rebuilt == urlParse(<<SchemeTok>>
                            \o (IF parsed.Host # "" THEN <<parsed.Host>> ELSE <<>>)
                            \o RequestURI(parsed))
    IN  IF Len(ep) = 0 THEN fail(ErrNoInstanceGiven)
        ELSE IF ~parsed.ok THEN fail(ErrURLParse)
        ELSE IF ~parsed.User.present
        THEN [err |-> ErrNil, baseURL |-> parsed, hasAuth |-> TRUE,
              username |-> "", password |-> ""]
        ELSE IF ~parsed.User.haspassword THEN fail(ErrUserProvidedWithoutPassword)
        ELSE IF ~rebuilt.ok THEN fail(ErrURLParse)
        ELSE [err |-> ErrNil, baseURL |-> rebuilt, hasAuth |-> TRUE,
              username |-> parsed.User.name, password |-> parsed.User.password]
\* Variant: the base URL is the connection string as parsed, user-info included.
NewClientParse_KeepsUserInfo(ep) ==
    LET fail(e) == [err |-> e, baseURL |-> NoURL, hasAuth |-> FALSE,
                    username |-> "", password |-> ""]
        parsed == urlParse(ep)
    IN  IF Len(ep) = 0 THEN fail(ErrNoInstanceGiven)
        ELSE IF ~parsed.ok THEN fail(ErrURLParse)
        ELSE IF ~parsed.User.present
        THEN [err |-> ErrNil, baseURL |-> parsed, hasAuth |-> FALSE,
              username |-> "", password |-> ""]
        ELSE IF ~parsed.User.haspassword THEN fail(ErrUserProvidedWithoutPassword)
        ELSE [err |-> ErrNil, baseURL |-> parsed, hasAuth |-> TRUE,
              username |-> parsed.User.name, password |-> parsed.User.password]
\* Variant: a name without a password is not rejected.
NewClientParse_NoPasswordCheck(ep) ==
    LET parsed == urlParse(ep)
        rebuilt == urlParse(<<SchemeTok>>
                            \o (IF parsed.Host # "" THEN <<parsed.Host>> ELSE <<>>)
                            \o RequestURI(parsed))
    IN  IF Len(ep) = 0 \/ ~parsed.ok \/ ~rebuilt.ok
        THEN [err |-> IF Len(ep) = 0 THEN ErrNoInstanceGiven ELSE ErrURLParse,
              baseURL |-> NoURL, hasAuth |-> FALSE, username |-> "", password |-> ""]
        ELSE IF ~parsed.User.present
        THEN [err |-> ErrNil, baseURL |-> parsed, hasAuth |-> FALSE,
              username |-> "", password |-> ""]
        ELSE [err |-> ErrNil, baseURL |-> rebuilt, hasAuth |-> TRUE,
              username |-> parsed.User.name, password |-> parsed.User.password]

\* NewClient up to the construction of the client: the error it returns
\* there, or the base URL and the credentials of the connection string.
NewClientParse(ep) ==
    LET fail(e) == [err |-> e, baseURL |-> NoURL, hasAuth |-> FALSE,
                    username |-> "", password |-> ""]
        parsed == urlParse(ep)
        rebuilt == urlParse(<<SchemeTok>>
                            \o (IF parsed.Host # "" THEN <<parsed.Host>> ELSE <<>>)
                            \o RequestURI(parsed))
    IN  IF Len(ep) = 0 THEN fail(ErrNoInstanceGiven)
        ELSE IF ~parsed.ok THEN fail(ErrURLParse)
        ELSE IF ~parsed.User.present
        THEN [err |-> ErrNil, baseURL |-> parsed, hasAuth |-> FALSE,
              username |-> "", password |-> ""]
        ELSE IF ~parsed.User.haspassword THEN fail(ErrUserProvidedWithoutPassword)
        ELSE IF ~rebuilt.ok THEN fail(ErrURLParse)
        ELSE [err |-> ErrNil, baseURL |-> rebuilt, hasAuth |-> TRUE,
              username |-> parsed.User.name, password |-> parsed.User.password]

\* AccountsService.GetAccount("self"): GET accounts/self, decoded into an
\* AccountInfo.
GetAccountSelf ==
    [caller |-> "NewClient", method |-> "GET", urlStr |-> <<"accounts", "/", "self">>,
     hasBody |-> FALSE, dest |-> "typed"]

\* Variant: the auth state is reset whenever NewClient returns an error.
NewClientNext_ResetOnError(scheme, chk, au, up) ==
    IF chk.panic
    THEN [pc |-> "panicked", auth |-> au, client |-> FALSE, err |-> ErrNil]
    ELSE IF chk.err # ErrNil
    THEN [pc |-> "returned", auth |-> ResetAuth, client |-> TRUE, err |-> chk.err]
    ELSE IF chk.success
    THEN [pc |-> "returned", auth |-> au, client |-> TRUE, err |-> ErrNil]
    ELSE IF scheme = "Digest"
    THEN [pc |-> "Basic", auth |-> SetBasicAuth(up[1], up[2]), client |-> FALSE,
          err |-> ErrNil]
    ELSE IF scheme = "Basic"
    THEN [pc |-> "Cookie", auth |-> SetCookieAuth(up[1], up[2]), client |-> FALSE,
          err |-> ErrNil]
    ELSE [pc |-> "returned", auth |-> ResetAuth, client |-> TRUE,
          err |-> ErrAuthenticationFailed]
\* Variant: a successful probe does not end the probing.
NewClientNext_KeepsProbing(scheme, chk, au, up) ==
    IF chk.panic
    THEN [pc |-> "panicked", auth |-> au, client |-> FALSE, err |-> ErrNil]
    ELSE IF chk.err # ErrNil
    THEN [pc |-> "returned", auth |-> au, client |-> TRUE, err |-> chk.err]
    ELSE IF scheme = "Digest"
    THEN [pc |-> "Basic", auth |-> SetBasicAuth(up[1], up[2]), client |-> FALSE,
          err |-> ErrNil]
    ELSE IF scheme = "Basic"
    THEN [pc |-> "Cookie", auth |-> SetCookieAuth(up[1], up[2]), client |-> FALSE,
          err |-> ErrNil]
    ELSE IF chk.success
    THEN [pc |-> "returned", auth |-> au, client |-> TRUE, err |-> ErrNil]
    ELSE [pc |-> "returned", auth |-> ResetAuth, client |-> TRUE,
          err |-> ErrAuthenticationFailed]
\* Variant: the auth state is not reset when every scheme failed.
NewClientNext_NoReset(scheme, chk, au, up) ==
    IF chk.panic
    THEN [pc |-> "panicked", auth |-> au, client |-> FALSE, err |-> ErrNil]
    ELSE IF chk.success \/ chk.err # ErrNil
    THEN [pc |-> "returned", auth |-> au, client |-> TRUE, err |-> chk.err]
    ELSE IF scheme = "Digest"
    THEN [pc |-> "Basic", auth |-> SetBasicAuth(up[1], up[2]), client |-> FALSE,
          err |-> ErrNil]
    ELSE IF scheme = "Basic"
    THEN [pc |-> "Cookie", auth |-> SetCookieAuth(up[1], up[2]), client |-> FALSE,
          err |-> ErrNil]
    ELSE [pc |-> "returned", auth |-> au, client |-> TRUE,
          err |-> ErrAuthenticationFailed]

\* NewClient after the checkAuth of `scheme` gave chk: it returns, or sets
\* the next scheme and probes again.
NewClientNext(scheme, chk, au, up) ==
    IF chk.panic
    THEN [pc |-> "panicked", auth |-> au, client |-> FALSE, err |-> ErrNil]
    ELSE IF chk.success \/ chk.err # ErrNil
    THEN [pc |-> "returned", auth |-> au, client |-> TRUE, err |-> chk.err]
    ELSE IF scheme = "Digest"
    THEN [pc |-> "Basic", auth |-> SetBasicAuth(up[1], up[2]), client |-> FALSE,
          err |-> ErrNil]
    ELSE IF scheme = "Basic"
    THEN [pc |-> "Cookie", auth |-> SetCookieAuth(up[1], up[2]), client |-> FALSE,
          err |-> ErrNil]
    ELSE [pc |-> "returned", auth |-> ResetAuth, client |-> TRUE,
          err |-> ErrAuthenticationFailed]

Probing == {"Digest", "Basic", "Cookie"}

NewClientStart ==
    /\ ncPc = "start"
    /\ LET p == NewClientParse(endpoint)
       IN  IF p.err # ErrNil
           THEN /\ ncPc' = "returned"
                /\ retClient' = FALSE
                /\ retErr' = p.err
                /\ UNCHANGED <<baseURL, userpass, auth, callVars>>
           ELSE IF ~p.hasAuth
           THEN /\ ncPc' = "returned"
                /\ retClient' = TRUE
                /\ retErr' = ErrNil
                /\ baseURL' = p.baseURL
                /\ UNCHANGED <<userpass, auth, callVars>>
           ELSE /\ ncPc' = "Digest"
                /\ baseURL' = p.baseURL
                /\ userpass' = <<p.username, p.password>>
                /\ auth' = SetDigestAuth(p.username, p.password)
                /\ Begin(GetAccountSelf)
                /\ UNCHANGED <<retClient, retErr>>
    /\ UNCHANGED <<endpoint, probeLog, netCalls, pureVars>>

NewClientCheckAuth ==
    /\ ncPc \in Probing
    /\ callPc = "done"
    /\ call.caller = "NewClient"
    /\ LET n == NewClientNext(ncPc, checkAuth(resp, callErr), auth, userpass)
       IN  /\ ncPc' = n.pc
           /\ auth' = n.auth
           /\ retClient' = n.client
           /\ retErr' = n.err
           /\ probeLog' = Append(probeLog,
                  [probe |-> ncPc, active |-> auth.authType, cred |-> credScheme,
                   status |-> resp.status, err |-> callErr, sent |-> Len(wire)])
           /\ IF n.pc \in Probing THEN Begin(GetAccountSelf) ELSE UNCHANGED callVars
    /\ UNCHANGED <<endpoint, baseURL, userpass, netCalls, pureVars>>

----------------------------------------------------------------------------
(* The owner of a client: calls, and changes of the auth state that may   *)
(* come at any time, from another goroutine too.                          *)

Owned == ncPc = "returned" /\ retClient
\* NewRequest has read the auth state and has not returned yet.
Reading == {"basic", "cookie", "digest", "probe", "challenge"}

OwnerCall ==
    /\ Owned
    /\ callPc = "idle"
    /\ \E sh \in CallShapes, u \in RelPaths :
          Begin([caller |-> "owner", method |-> sh[1], urlStr |-> u, hasBody |-> sh[2],
                 dest |-> sh[3]])
    /\ UNCHANGED <<bootVars, auth, netCalls, pureVars>>

\* The owner has the call's result; the next call starts afresh.
OwnerDone ==
    /\ Owned
    /\ callPc = "done"
    /\ call.caller = "owner"
    /\ callPc' = "idle"
    /\ call' = NoCall
    /\ req' = NoReq
    /\ wire' = <<>>
    /\ resp' = NoResp
    /\ callErr' = ErrNil
    /\ prefixScheme' = ""
    /\ credScheme' = ""
    /\ raced' = FALSE
    /\ probeSeen' = NotSeen
    /\ delivered' = NotDelivered
    /\ UNCHANGED <<bootVars, auth, netCalls, pureVars>>

\* The auth state becomes au.
Mutate(au) ==
    /\ Owned
    /\ auth' = au
    /\ raced' = (raced \/ callPc \in Reading)
    /\ UNCHANGED <<bootVars, netCalls, callPc, call, req, wire, resp, callErr, prefixScheme,
                   credScheme, probeSeen, delivered, pureVars>>

OwnerSetBasic == \E c \in Credentials : Mutate(SetBasicAuth(c[1], c[2]))
OwnerSetCookie == \E c \in Credentials : Mutate(SetCookieAuth(c[1], c[2]))
OwnerSetDigest == \E c \in Credentials : Mutate(SetDigestAuth(c[1], c[2]))
OwnerReset == Mutate(ResetAuth)

----------------------------------------------------------------------------
(* RemoveMagicPrefixLine, applied to a body and then to its own result. *)

Chunks ==
    { MagicPrefix, <<")", "]", "}", "'">>, <<")">>, <<"\n">>, <<"{", "}">> }
RECURSIVE Flatten(_)
Flatten(ss) == IF ss = <<>> THEN <<>> ELSE Head(ss) \o Flatten(Tail(ss))
Bodies == UNION { { Flatten(t) : t \in [1..n -> Chunks] } : n \in 0..MaxChunks }

Strip ==
    /\ stripPc = "on"
    /\ Len(stripped) < 2
    /\ stripped' = Append(stripped,
           RemoveMagicPrefixLine(IF stripped = <<>> THEN body ELSE stripped[Len(stripped)]))
    /\ UNCHANGED <<bootVars, auth, netCalls, callVars, body, stripPc, relPath, built,
                   answer, verdict>>

----------------------------------------------------------------------------
(* buildURLForRequest, applied to a base endpoint, an auth state and a    *)
(* relative path.                                                          *)

\* The base paths, and each of them with two trailing separators.
WideBasePaths ==
    BasePaths \cup { Segments(k) \o <<"/", "/">> : k \in 0..MaxBasePath }
BuildEndpoints == { <<S, H>> \o p : p \in WideBasePaths }
AuthStates ==
    { NoAuth, SetBasicAuth("u", "p"), SetCookieAuth("u", "p"), SetDigestAuth("u", "p") }
\* The relative paths: every string of up to MaxRelPath tokens that
\* url.Parse reads as a path, and the project paths of the documentation.
PathToks == {"/", "a", "x", "%2F", " ", BadEscape}
RelStrings ==
    { t \in UNION { [1..n -> PathToks] : n \in 0..MaxRelPath } :
         ~HasPrefix(t, <<"/", "/", "/">>) }
ProjectPaths ==
    { <<"projects", "/", "x">>,
      <<"a", "/", "projects", "/", "x">>,
      <<"projects", "/", "plugin", "/", "delete-project">>,
      <<"projects", "/", "plugin", "%2F", "delete-project">> }

BuildURL ==
    /\ ncPc = "returned"
    /\ callPc = "idle"
    /\ ~built.done
    /\ LET b == buildURLForRequest(baseURL, auth, relPath)
       IN  built' = [done |-> TRUE, ok |-> b.ok, u |-> b.u]
    /\ UNCHANGED <<bootVars, auth, netCalls, callVars, stripVars, relPath, answer, verdict>>

----------------------------------------------------------------------------
(* CheckResponse, applied to a response. *)

\* The responses: every status code from StatusMargin below the success
\* range to StatusMargin above it, with a status text and the URL of the
\* request it answers.
StatusCodes == (StatusLow - StatusMargin)..(StatusHigh + StatusMargin)
StatusTexts == {"403 Forbidden", "500 Internal Server Error"}
RequestURLs ==
    { urlParse(<<S, H, "/", "accounts", "/", "self">>),
      urlParse(<<S, H, "/", "g", "/", "projects", "/", "p", "%2F", "q">>) }
Answers == [StatusCode : StatusCodes, Status : StatusTexts, URL : RequestURLs]

Check ==
    /\ ~verdict.done
    /\ answer # NoAnswer
    /\ verdict' = [done |-> TRUE, err |-> CheckResponse(answer.StatusCode),
                   text |-> IF CheckResponse(answer.StatusCode) = ErrNil THEN <<>>
                            ELSE CheckResponseText(answer)]
    /\ UNCHANGED <<bootVars, auth, netCalls, callVars, stripVars, relPath, built, answer>>

----------------------------------------------------------------------------
(* Specifications. *)

Pipeline ==
    \/ NewRequestBuild
    \/ AddBasic
    \/ AddCookie
    \/ AddDigest
    \/ DigestProbeSend
    \/ DigestChallenge
    \/ CallDo

\* NewClient on a connection string, from its call to its return.
Next ==
    \/ NewClientStart
    \/ NewClientCheckAuth
    \/ Pipeline
Spec == Init /\ [][Next]_vars

\* A client that NewClient returned for a connection string without
\* user-info, in the hands of its owner.
InitOwner ==
    /\ endpoint \in Endpoints
    /\ NewClientParse(endpoint).err = ErrNil
    /\ ~NewClientParse(endpoint).hasAuth
    /\ ncPc = "returned"
    /\ retClient = TRUE
    /\ retErr = ErrNil
    /\ baseURL = NewClientParse(endpoint).baseURL
    /\ userpass = <<"", "">>
    /\ auth = NoAuth
    /\ probeLog = <<>>
    /\ netCalls = 0
    /\ CallIdle
    /\ StripIdle
    /\ BuildIdle
    /\ CheckIdle
NextOwner ==
    \/ OwnerCall
    \/ OwnerDone
    \/ OwnerSetBasic
    \/ OwnerSetCookie
    \/ OwnerSetDigest
    \/ OwnerReset
    \/ Pipeline
SpecOwner == InitOwner /\ [][NextOwner]_vars

\* RemoveMagicPrefixLine on every body of the bound.
InitStrip ==
    /\ endpoint = <<>>
    /\ ncPc = "start"
    /\ retClient = FALSE
    /\ retErr = ErrNil
    /\ baseURL = NoURL
    /\ userpass = <<"", "">>
    /\ auth = NoAuth
    /\ probeLog = <<>>
    /\ netCalls = 0
    /\ CallIdle
    /\ body \in Bodies
    /\ stripped = <<>>
    /\ stripPc = "on"
    /\ BuildIdle
    /\ CheckIdle
NextStrip == Strip
SpecStrip == InitStrip /\ [][NextStrip]_vars

\* buildURLForRequest on a client NewClient returned for a connection
\* string without user-info, whose auth state was set or left as it was.
InitBuild ==
    /\ endpoint \in BuildEndpoints
    /\ ncPc = "returned"
    /\ retClient = TRUE
    /\ retErr = ErrNil
    /\ baseURL = NewClientParse(endpoint).baseURL
    /\ userpass = <<"", "">>
    /\ auth \in AuthStates
    /\ probeLog = <<>>
    /\ netCalls = 0
    /\ CallIdle
    /\ StripIdle
    /\ relPath \in RelStrings \cup ProjectPaths
    /\ built = NotBuilt
    /\ CheckIdle
NextBuild == BuildURL
SpecBuild == InitBuild /\ [][NextBuild]_vars

\* CheckResponse on every response of the bound.
InitCheck ==
    /\ endpoint = <<>>
    /\ ncPc = "start"
    /\ retClient = FALSE
    /\ retErr = ErrNil
    /\ baseURL = NoURL
    /\ userpass = <<"", "">>
    /\ auth = NoAuth
    /\ probeLog = <<>>
    /\ netCalls = 0
    /\ CallIdle
    /\ StripIdle
    /\ BuildIdle
    /\ answer \in Answers
    /\ verdict = NoVerdict
NextCheck == Check
SpecCheck == InitCheck /\ [][NextCheck]_vars

----------------------------------------------------------------------------
(* Properties. *)

ProbeOrder == <<"Digest", "Basic", "Cookie">>
RECURSIVE SumSent(_)
SumSent(log) == IF log = <<>> THEN 0 ELSE Head(log).sent + SumSent(Tail(log))
\* The probes were made in the fixed order, each with its scheme set and used.
InOrder ==
    /\ Len(probeLog) <= Len(ProbeOrder)
    /\ \A i \in 1..Len(probeLog) :
          /\ probeLog[i].probe = ProbeOrder[i]
          /\ probeLog[i].active = ProbeOrder[i]
          /\ probeLog[i].cred = ProbeOrder[i]
\* Probe i was the last one: NewClient returned a client with the scheme of
\* probe i active, and the transport was not called again.
Settled(i) ==
    /\ i = Len(probeLog)
    /\ ncPc = "returned"
    /\ retClient
    /\ auth.authType = ProbeOrder[i]
    /\ callPc = "done"
    /\ netCalls = SumSent(probeLog)
\* The probe did not authenticate, and NewClient goes on to the next scheme.
Inapplicable(e) ==
    \/ e.err = ErrWWWAuthenticateHeaderMissing
    \/ e.err = ErrWWWAuthenticateHeaderNotDigest
    \/ e.status = StatusUnauthorized
\* The probe ended with an error that is neither of the Digest signals nor a 401.
Fatal(e) ==
    /\ e.err \notin {ErrNil, ErrWWWAuthenticateHeaderMissing, ErrWWWAuthenticateHeaderNotDigest}
    /\ e.status # StatusUnauthorized
RealSent == \E i \in 1..Len(wire) : wire[i].role = "real"
NewRequestReturned == callPc = "send" \/ RealSent
NameWithoutSecret(ep) == Len(ep) >= 2 /\ ep[2] = "u@"
NameAndSecret(ep) == Len(ep) >= 2 /\ ep[2] = "u:p@"

\* C1 (as claimed): NewClient with a name and a secret probes Digest, Basic,
\* Cookie in that order; at the first probe whose status is 200 it returns
\* with no error, that scheme is the active one, and nothing is probed after.
C1_FirstOKReturnsNoError ==
    NameAndSecret(endpoint) =>
       /\ InOrder
       /\ \A i \in 1..Len(probeLog) :
             probeLog[i].status = StatusOK => Settled(i) /\ retErr = ErrNil

\* C1 (amended): the same, but the error returned at the first 200 is the
\* error of that probe: nil when its body was read and decoded, the read or
\* the decode error when not.  It holds for an empty secret (u:@) as well.
C1_FirstOKReturns ==
    /\ InOrder
    /\ \A i \in 1..Len(probeLog) :
          probeLog[i].status = StatusOK =>
             /\ Settled(i)
             /\ retErr = probeLog[i].err
             /\ retErr \in {ErrNil, ErrRead, ErrDecode}
C1_Witness ==
    /\ NameAndSecret(endpoint)
    /\ ncPc = "returned"
    /\ Len(probeLog) = 2
    /\ probeLog[1].status = StatusUnauthorized
    /\ probeLog[2].status = StatusOK
    /\ retErr = ErrNil
    /\ auth.authType = "Basic"

\* C2: when all three probes were inapplicable (a 401, or a Digest challenge
\* that is missing or not Digest), NewClient returns ErrAuthenticationFailed
\* with a client whose auth state is reset to None.
C2_AllInapplicable ==
    (/\ probeLog # <<>>
     /\ ncPc \notin Probing
     /\ \A i \in 1..Len(probeLog) : Inapplicable(probeLog[i]))
    => /\ Len(probeLog) = 3
       /\ ncPc = "returned"
       /\ retClient
       /\ retErr = ErrAuthenticationFailed
       /\ auth = NoAuth
C2_Witness ==
    /\ ncPc = "returned"
    /\ Len(probeLog) = 3
    /\ probeLog[1].err = ErrWWWAuthenticateHeaderMissing
    /\ probeLog[2].status = StatusUnauthorized
    /\ probeLog[3].status = StatusUnauthorized
    /\ retErr = ErrAuthenticationFailed

\* C3: a probe error other than the two Digest signals and a 401 (a
\* transport error, a malformed body) is returned by NewClient at once, and
\* no further probe is made.
C3_FatalErrorReturned ==
    \A i \in 1..Len(probeLog) :
       Fatal(probeLog[i]) =>
          /\ i = Len(probeLog)
          /\ ncPc = "returned"
          /\ retErr = probeLog[i].err

\* C4: a request sent under Digest was preceded by exactly one probe, with
\* the same method and the same URL, without body and without credentials.
C4_ProbeSameResource ==
    (credScheme = "Digest" /\ RealSent) =>
       /\ Len(wire) = 2
       /\ wire[1].role = "probe"
       /\ wire[2].role = "real"
       /\ wire[1].method = wire[2].method
       /\ wire[1].url = wire[2].url
       /\ ~wire[1].hasBody
       /\ wire[1].authorization = NoHeader
       /\ wire[1].cookie = NoCookie

\* C5: for an empty connection string and for one with a name and no secret,
\* NewClient returns its own error for each, no client, and the transport is
\* never called.
C5_ConfigErrorsNoNetwork ==
    (endpoint = <<>> \/ NameWithoutSecret(endpoint)) =>
       /\ netCalls = 0
       /\ wire = <<>>
       /\ callPc = "idle"
       /\ ncPc \in {"start", "returned"}
       /\ ncPc = "returned" =>
             /\ ~retClient
             /\ retErr = IF endpoint = <<>> THEN ErrNoInstanceGiven
                         ELSE ErrUserProvidedWithoutPassword
       /\ ErrNoInstanceGiven # ErrUserProvidedWithoutPassword
C5_Witness ==
    /\ ncPc = "returned"
    /\ NameWithoutSecret(endpoint)
    /\ retErr = ErrUserProvidedWithoutPassword
    /\ netCalls = 0

\* The credentials on request r are those of scheme sch and of no other.
CredentialsOf(r, sch) ==
    /\ sch = "Basic" => r.authorization.kind = "Basic" /\ ~r.cookie.present
    /\ sch = "Cookie" => r.cookie.present /\ r.authorization = NoHeader
    /\ sch = "Digest" => r.authorization.kind \in {"", "Digest"} /\ ~r.cookie.present
    /\ sch = "None" => r.authorization = NoHeader /\ ~r.cookie.present

\* C6 (as claimed): in every request NewRequest returns, the scheme that
\* decided the a/ prefix is the scheme whose credentials were applied, also
\* when the auth state is set or reset during the call.
C6_SchemeCaptured ==
    NewRequestReturned => prefixScheme = credScheme

\* C6 (amended): the two schemes are the same when the auth state was not set
\* or reset between NewRequest's reads of it; and the request that is sent is
\* the request as it was built, whatever the auth state has become since.
C6_SchemeCapturedUnlessRaced ==
    NewRequestReturned =>
       /\ ~raced => prefixScheme = credScheme
       /\ CredentialsOf(req, credScheme)
       /\ RealSent =>
             LET w == wire[Len(wire)]
             IN  /\ w.method = req.method
                 /\ w.url = urlString(req.URL)
                 /\ w.authorization = req.authorization
                 /\ w.cookie = req.cookie
C6_Witness ==
    /\ RealSent
    /\ ~raced
    /\ credScheme = "Basic"
    /\ prefixScheme = "Basic"
    /\ auth.authType = "Cookie"
    /\ wire[Len(wire)].authorization.kind = "Basic"

\* C7 (as claimed): stripping twice equals stripping once, for every body.
C7_Idempotent ==
    Len(stripped) = 2 => stripped[2] = stripped[1]

\* C7 (amended): stripping twice equals stripping once for every body that
\* does not begin with two magic prefix lines in a row.
C7_IdempotentOnSinglePrefix ==
    (Len(stripped) = 2 /\ ~HasPrefix(body, MagicPrefix \o MagicPrefix))
    => stripped[2] = stripped[1]
C7_Witness ==
    /\ Len(stripped) = 2
    /\ HasPrefix(body, MagicPrefix)
    /\ ~HasPrefix(body, MagicPrefix \o MagicPrefix)
    /\ Len(body) > Len(MagicPrefix)
    /\ stripped[1] # body
    /\ stripped[2] = stripped[1]

\* C8: the result is the body without its first five bytes exactly when the
\* body starts with )]}' and a newline, and the body itself otherwise.
C8_StripsExactlyThePrefixLine ==
    Len(stripped) >= 1 =>
       stripped[1] = IF HasPrefix(body, MagicPrefix)
                     THEN SubSeq(body, Len(MagicPrefix) + 1, Len(body))
                     ELSE body
C8_Witness ==
    /\ Len(stripped) >= 1
    /\ HasPrefix(body, MagicPrefix)
    /\ \E i \in (Len(MagicPrefix) + 1)..Len(body) : body[i] = "\n"
    /\ Len(stripped[1]) = Len(body) - Len(MagicPrefix)

\* C9: when the 401 answer to the Digest probe has no WWW-Authenticate header
\* or names another scheme, the call returns that error and no response, and
\* the probe is the only request the transport was handed.
C9_DigestHeaderErrorAborts ==
    (probeSeen.status = StatusUnauthorized /\ probeSeen.wwwAuth # "Digest") =>
       /\ callPc = "done"
       /\ callErr = IF probeSeen.wwwAuth = "" THEN ErrWWWAuthenticateHeaderMissing
                    ELSE ErrWWWAuthenticateHeaderNotDigest
       /\ ~resp.present
       /\ Len(wire) = 1
       /\ wire[1].role = "probe"
C9_Witness ==
    /\ callPc = "done"
    /\ probeSeen = [status |-> StatusUnauthorized, wwwAuth |-> "Basic"]
    /\ callErr = ErrWWWAuthenticateHeaderNotDigest

\* C10: in one call the request is handed to the transport at most once,
\* after at most one probe and only under Digest; a transport error ends the
\* call with that error and no response.
C10_NoRetry ==
    /\ Cardinality({i \in 1..Len(wire) : wire[i].role = "real"}) <= 1
    /\ Len(wire) <= 2
    /\ credScheme # "Digest" => Len(wire) <= 1
    /\ Len(wire) = 2 => wire[1].role = "probe" /\ wire[2].role = "real"
    /\ callErr = ErrTransport => callPc = "done" /\ ~resp.present
    /\ RealSent => callPc = "done"
C10_Witness ==
    /\ callPc = "done"
    /\ callErr = ErrTransport
    /\ Len(wire) = 2
    /\ probeSeen.status = StatusOK

InRange(status) == status \in 200..299
\* Do was called and has returned.
DoReturned == callPc = "done" /\ RealSent

\* C11 (as claimed): Do returns the response whenever the transport produced
\* one, and no response only on a transport error; with the status error for
\* a status outside 200..299, the body then unread and v untouched; with the
\* decode error for malformed JSON; and with no error otherwise.
C11_ResponseWheneverProduced ==
    DoReturned =>
       /\ ~resp.present <=> callErr = ErrTransport
       /\ (resp.present /\ ~InRange(resp.status)) =>
             callErr = ErrStatus /\ delivered = NotDelivered
       /\ (resp.present /\ InRange(resp.status)) =>
             callErr = IF call.dest = "typed" /\ delivered.malformed THEN ErrDecode
                       ELSE ErrNil

\* C11 (amended): the same, and when reading the body of a 2xx answer fails,
\* Do returns the response with the read error if v is a value to decode
\* into, and with no error if v is a writer.
C11_ResponseWheneverProducedOrReadError ==
    DoReturned =>
       /\ ~resp.present <=> callErr = ErrTransport
       /\ (resp.present /\ ~InRange(resp.status)) =>
             callErr = ErrStatus /\ delivered = NotDelivered
       /\ (resp.present /\ InRange(resp.status)) =>
             /\ callErr = IF call.dest = "typed" /\ delivered.readErr THEN ErrRead
                          ELSE IF call.dest = "typed" /\ delivered.malformed THEN ErrDecode
                          ELSE ErrNil
             /\ delivered.read <=> call.dest # "none"
             /\ callErr = ErrRead => delivered.v = "untouched"
C11_Witness ==
    /\ DoReturned
    /\ call.dest = "typed"
    /\ resp.present
    /\ resp.status = 500
    /\ callErr = ErrStatus
    /\ delivered = NotDelivered

\* Sequence t occurs in sequence s, as one piece.
Contains(s, t) == \E i \in 0..(Len(s) - Len(t)) : SubSeq(s, i + 1, i + Len(t)) = t

\* C12: CheckResponse returns nil exactly for the status codes 200..299, an
\* error for every other one, 199 and 300 among them; the text of the error
\* holds the URL of the request and the status text of the response.
C12_SuccessRange ==
    verdict.done =>
       /\ verdict.err = ErrNil <=> answer.StatusCode \in 200..299
       /\ verdict.err # ErrNil =>
             /\ Contains(verdict.text, urlString(answer.URL))
             /\ Contains(verdict.text, <<answer.Status>>)
       /\ {199, 300} \subseteq StatusCodes
C12_Witness ==
    /\ verdict.done
    /\ answer.StatusCode = 300
    /\ verdict.err = ErrStatus
    /\ Contains(verdict.text, <<"%2F">>)

\* The relative path without the leading separator buildURLForRequest drops.
Relative == IF HasPrefix(relPath, <<"/">>) THEN Drop(relPath, 1) ELSE relPath
Prefixed(s) == HasPrefix(s, <<"a", "/">>)
\* The base endpoint as a string, and what follows it in the built URL
\* after the one separator a base without a trailing one is given.
BaseString == urlString(baseURL)
BuiltRelative ==
    Drop(built.u, Len(BaseString) + IF HasSuffix(BaseString, <<"/">>) THEN 0 ELSE 1)
BuiltOK == built.done /\ built.ok

\* C13: with a scheme set, the relative part of the built URL starts with
\* a/, which was put in front of the path unless the path had it already;
\* with no scheme set nothing is put in front of the path.
C13_PrefixWhenAuthenticated ==
    BuiltOK =>
       /\ HasAuth(auth) =>
             /\ Prefixed(BuiltRelative)
             /\ Len(BuiltRelative) = Len(Relative) + IF Prefixed(Relative) THEN 0 ELSE 2
             /\ ~Prefixed(Relative) => Drop(BuiltRelative, 2) = urlString(urlParse(Relative))
       /\ ~HasAuth(auth) => BuiltRelative = urlString(urlParse(Relative))
       /\ relPath = <<"projects", "/", "x">> =>
             (HasSuffix(built.u, <<"/", "a", "/", "projects", "/", "x">>) <=> HasAuth(auth))
       /\ relPath = <<"a", "/", "projects", "/", "x">> =>
             ~HasSuffix(built.u, <<"a", "/", "a", "/", "projects", "/", "x">>)
C13_Witness ==
    /\ BuiltOK
    /\ auth.authType = "Cookie"
    /\ relPath = <<"a", "/", "projects", "/", "x">>
    /\ baseURL.Path = <<"/", "g">>
    /\ built.u = <<S, H, "/", "g", "/", "a", "/", "projects", "/", "x">>

\* The built URL up to its relative part, which is as long as the relative
\* path and the a/ put in front of it.
EndpointPart ==
    SubSeq(built.u, 1,
           Len(built.u) - Len(Relative)
              - IF HasAuth(auth) /\ ~Prefixed(Relative) THEN 2 ELSE 0)

\* C14 (as claimed): for every base endpoint the endpoint part of the built
\* URL ends with one separator and never with two.
C14_ExactlyOneSeparator ==
    BuiltOK =>
       /\ HasSuffix(EndpointPart, <<"/">>)
       /\ ~HasSuffix(EndpointPart, <<"/", "/">>)

\* C14 (amended): the endpoint part is the base endpoint, with one separator
\* added when it ends with none; it ends with two separators only when the
\* base endpoint itself does.
C14_OneSeparatorAdded ==
    BuiltOK =>
       /\ HasSuffix(EndpointPart, <<"/">>)
       /\ EndpointPart \in {BaseString, BaseString \o <<"/">>}
       /\ HasSuffix(EndpointPart, <<"/", "/">>) => HasSuffix(BaseString, <<"/", "/">>)
C14_Witness ==
    /\ BuiltOK
    /\ endpoint = <<S, H, "/", "g">>
    /\ relPath = <<"projects", "/", "x">>
    /\ EndpointPart = <<S, H, "/", "g", "/">>

\* String s holds a user-info component.
HasUserInfo(s) == \E i \in 1..Len(s) : s[i] \in UserToks

\* C15: for a connection string with user-info, the base URL of the client
\* holds the scheme, the host and the path of the connection string (/ for
\* an empty path) and no user-info, and no URL built afterwards, of a
\* request or of a Digest probe, holds user-info.
C15_NoCredentialsInURL ==
    (HasUserInfo(endpoint) /\ baseURL.ok) =>
       /\ ~baseURL.User.present
       /\ ~HasUserInfo(urlString(baseURL))
       /\ urlString(baseURL) =
             <<endpoint[1]>> \o Drop(endpoint, 2)
                \o IF Drop(endpoint, 3) = <<>> THEN <<"/">> ELSE <<>>
       /\ req.built => ~req.URL.User.present /\ ~HasUserInfo(urlString(req.URL))
       /\ \A i \in 1..Len(wire) : ~HasUserInfo(wire[i].url)
C15_Witness ==
    /\ endpoint = <<S, "u:p@", H, "/", "g">>
    /\ Len(wire) = 2
    /\ wire[1].role = "probe"
    /\ wire[2].role = "real"
    /\ wire[2].url = <<S, H, "/", "g", "/", "a", "/", "accounts", "/", "self">>
    /\ wire[2].authorization.secret = "p"

\* C16: for a connection string that parses and holds no user-info,
\* NewClient returns a client and no error, the auth state of the client is
\* None, and the transport is never called.
C16_NoUserInfoNoProbe ==
    (endpoint # <<>> /\ urlParse(endpoint).ok /\ ~HasUserInfo(endpoint)) =>
       /\ netCalls = 0
       /\ wire = <<>>
       /\ probeLog = <<>>
       /\ callPc = "idle"
       /\ auth = NoAuth
       /\ ncPc \in {"start", "returned"}
       /\ ncPc = "returned" =>
             /\ retClient
             /\ retErr = ErrNil
             /\ urlString(baseURL) = endpoint
C16_Witness ==
    /\ endpoint = <<S, H, "/", "g">>
    /\ ncPc = "returned"
    /\ retClient
    /\ retErr = ErrNil
    /\ auth.authType = "None"
    /\ netCalls = 0

\* The relative part of the built URL without the a/ put in front of it.
BuiltPath ==
    IF HasAuth(auth) /\ ~Prefixed(Relative) THEN Drop(BuiltRelative, 2) ELSE BuiltRelative

\* C17: a separator that is part of a name, given percent-encoded so that
\* the name is one path segment, is percent-encoded in the built URL too:
\* the built path has an escaped separator wherever the relative path has one.
C17_SeparatorStaysEscaped ==
    BuiltOK =>
       /\ Len(BuiltPath) = Len(Relative)
       /\ \A i \in 1..Len(Relative) : Relative[i] = "%2F" => BuiltPath[i] = "%2F"

\* addAuthentication returns nil in this step.
Authenticated == callPc \in {"basic", "cookie", "digest", "challenge"} /\ callPc' = "send"
\* The headers of the credential of auth state au under each scheme.
BasicHeader(au) == [kind |-> "Basic", name |-> au.name, secret |-> au.secret]
DigestHeader(au) == [kind |-> "Digest", name |-> au.name, secret |-> au.secret]
CookieOf(au) == [present |-> TRUE, name |-> au.name, value |-> au.secret]

\* C18: whatever the auth state was set to before, the request that
\* addAuthentication returns carries the credential of the scheme that is
\* active then and nothing of another scheme: the basic-auth header alone
\* under Basic, the cookie alone under Cookie, nothing under None, and under
\* Digest at most the Digest header; under Basic, Cookie and None the
\* transport was not called.  (The auth state is not set during the call.)
C18_OnlyActiveScheme ==
    [][Authenticated =>
         /\ CredentialsOf(req', credScheme')
         /\ credScheme' # "Digest" => wire' = <<>>
         /\ ~raced' =>
               /\ credScheme' = auth.authType
               /\ HasBasicAuth(auth) =>
                     req'.authorization = BasicHeader(auth) /\ req'.cookie = NoCookie
               /\ HasCookieAuth(auth) =>
                     req'.cookie = CookieOf(auth) /\ req'.authorization = NoHeader
               /\ ~HasAuth(auth) =>
                     req'.authorization = NoHeader /\ req'.cookie = NoCookie
               /\ HasDigestAuth(auth) =>
                     /\ req'.authorization \in {NoHeader, DigestHeader(auth)}
                     /\ req'.cookie = NoCookie]_vars
C18_Witness ==
    /\ callPc = "send"
    /\ ~raced
    /\ credScheme = "Cookie"
    /\ auth = SetCookieAuth("k", "v")
    /\ req.cookie = [present |-> TRUE, name |-> "k", value |-> "v"]
    /\ req.authorization = NoHeader
    /\ wire = <<>>

\* The Digest probe was answered with a status that is not 401.
ProbeNotChallenged ==
    credScheme = "Digest" /\ probeSeen.status \notin {NotSeen.status, StatusUnauthorized}

\* C19: under Digest, when the probe is answered with a status other than
\* 401, addAuthentication returns nil and the request goes to the transport
\* without an Authorization header; a request has the Digest header only
\* after a 401 answer with a Digest challenge.
C19_HeaderOnlyAfterChallenge ==
    /\ ProbeNotChallenged =>
          /\ callPc \in {"send", "done"}
          /\ callPc = "send" => callErr = ErrNil
          /\ callPc = "done" => RealSent
          /\ req.built /\ req.authorization = NoHeader
          /\ RealSent => wire[Len(wire)].authorization = NoHeader
    /\ (req.authorization.kind = "Digest"
          \/ \E i \in 1..Len(wire) : wire[i].authorization.kind = "Digest")
       => probeSeen = [status |-> StatusUnauthorized, wwwAuth |-> "Digest"]
C19_Witness ==
    /\ ProbeNotChallenged
    /\ probeSeen.status = 500
    /\ callPc = "done"
    /\ Len(wire) = 2
    /\ wire[2].role = "real"
    /\ wire[2].authorization = NoHeader
    /\ resp.present

\* The round trips a probe of scheme sch may take.
RoundTrips(sch) == IF sch = "Digest" THEN 2 ELSE 1
\* NewClient made no more round trips than its three probes allow.
WithinRoundTrips ==
    /\ netCalls <= RoundTrips("Digest") + RoundTrips("Basic") + RoundTrips("Cookie")
    /\ Len(probeLog) <= 3
    /\ \A i \in 1..Len(probeLog) : probeLog[i].sent <= RoundTrips(probeLog[i].probe)
    /\ netCalls <= SumSent(probeLog) + Len(wire)

\* C20: whatever the transport answers, NewClient makes at most four round
\* trips, two for Digest, one for Basic and one for Cookie, and then
\* returns: it ends in no other way.
C20_BoundedThenReturns ==
    /\ WithinRoundTrips
    /\ ncPc # "panicked"

\* The probe ended with the error of a status that is neither 2xx nor 401.
FatalStatus(e) ==
    /\ e.err = ErrStatus
    /\ ~InRange(e.status)
    /\ e.status # StatusUnauthorized

\* C21: when a probe ends with the error of a status that is neither 2xx
\* nor 401, NewClient returns that error and a client whose auth state is
\* still the scheme that was probed, with the credentials of the connection
\* string; the auth state is None after probing only when NewClient
\* returned ErrAuthenticationFailed, after three probes of which none
\* ended with a 200 or with such an error.
C21_ResetOnlyOnAuthFailure ==
    /\ \A i \in 1..Len(probeLog) :
          FatalStatus(probeLog[i]) =>
             /\ i = Len(probeLog)
             /\ ncPc = "returned"
             /\ retClient
             /\ retErr = ErrStatus
             /\ auth = [authType |-> probeLog[i].probe, name |-> userpass[1],
                        secret |-> userpass[2]]
    /\ ncPc \in Probing => auth.authType = ncPc
    /\ ncPc \in Probing \cup {"panicked"} => HasAuth(auth)
    /\ (probeLog # <<>> /\ ~HasAuth(auth)) =>
          /\ ncPc = "returned"
          /\ retErr = ErrAuthenticationFailed
          /\ Len(probeLog) = 3
          /\ \A i \in 1..3 : probeLog[i].status # StatusOK /\ ~FatalStatus(probeLog[i])
C21_Witness ==
    /\ ncPc = "returned"
    /\ retClient
    /\ Len(probeLog) = 2
    /\ probeLog[1].status = StatusUnauthorized
    /\ probeLog[2].status = 500
    /\ retErr = ErrStatus
    /\ auth = SetBasicAuth("u", "p")

====
